---- MODULE Spec2Model ----
(***************************************************************************)
(* Model of src/predict.py: the weight provisioner (download_weights,      *)
(* Predictor.setup) and the generation adapter (VLLMPipeline.__call__,     *)
(* VLLMPipeline.generate_stream, Predictor.predict).                       *)
(*                                                                         *)
(* Four specifications share the module, one per part of the program:      *)
(*   SpecSetup   repeated runs of Predictor.setup over one filesystem      *)
(*   SpecCall    the sampling-parameter assembly of VLLMPipeline.__call__  *)
(*   SpecStream  one generator returned by Predictor.predict, over every   *)
(*               engine stream of cumulative texts                         *)
(*   SpecServe   several such generators consumed in any order, with the   *)
(*               engine's request table and the thread's event loop        *)
(***************************************************************************)
EXTENDS Integers, Sequences, FiniteSets, TLC

VARIABLES
    fs,         \* state of the MODEL_ID path on disk
    llm,        \* self.llm of the Predictor: "none" or "engine"
    runs,       \* history: one record per run of Predictor.setup
    argSeq,     \* the caller's stop_sequences argument (None, a str or a list object)
    argIds,     \* the caller's stop_token_ids argument (None or a list object)
    calls,      \* history: one record per call of VLLMPipeline.__call__
    status,     \* per generator returned by predict: where it stands
    streamLoop, \* per generator: its local `loop`
    genLen,     \* per generator: its local `generation_length`
    requested,  \* per generator: next() calls the consumer made while it was live
    afterEnd,   \* per generator: next() calls the consumer made after it finished
    submits,    \* per generator: calls of engine.generate made for it
    engineOut,  \* per generator: what each gen.__anext__() delivered, in order
    fragments,  \* per generator: the fragments the consumer received, in order
    raised,     \* per generator: the exception the consumer received
    engineReqs, \* the engine's table of live requests
    overlap,    \* history: engine.generate was called while a request was live
    currentLoop,\* the calling thread's current event loop
    firstLoop,  \* history: the current event loop before the first request
    loopsMade,  \* history: event loops created since then
    stepLoops   \* history: the loops run_until_complete was called on

setupVars == <<fs, llm, runs>>
callVars == <<argSeq, argIds, calls>>
streamVars == <<status, streamLoop, genLen, requested, afterEnd, submits,
                engineOut, fragments, raised, engineReqs, overlap,
                currentLoop, firstLoop, loopsMade, stepLoops>>

vars == <<fs, llm, runs, argSeq, argIds, calls, status, streamLoop, genLen,
          requested, afterEnd, submits, engineOut, fragments, raised,
          engineReqs, overlap, currentLoop, firstLoop, loopsMade, stepLoops>>

(***************************************************************************)
(* Weight provisioner                                                      *)
(***************************************************************************)

\* number of setup runs explored
MaxSetups == 4

\* The MODEL_ID path (fs) is "absent", "partial" (populated by an extraction
\* that did not finish) or "complete" (holding the whole archive).

\* What `pget -x` can do: exit 0, exit non-zero (check_call raises
\* CalledProcessError), or be killed together with the process.
FetchOutcomes == {"ok", "error", "killed"}

\* What an unfinished extraction leaves at the destination.
FetchLeftovers == {"absent", "partial"}

\* AsyncLLMEngine.from_engine_args either returns an engine or raises.
EngineOutcomes == {"ok", "raise"}

\* os.path.exists(MODEL_ID)
PathExists(f) == f # "absent"

DownloadAlways(f) == TRUE

\* the guard of download_weights in setup: `if not os.path.exists(MODEL_ID)`
DownloadNeeded(f) == ~PathExists(f)

\* download_weights(url, dest): the path after the subprocess ended
download_weights(f, fo, left) ==
    IF fo = "ok" THEN "complete"
    ELSE IF f = "absent" THEN left ELSE "partial"

\* generator objects returned by Predictor.predict
MaxStreams == 2

Streams == 1..MaxStreams

\* event loops are named; NoLoop stands for "no current event loop"
NoLoop == <<"none", 0>>
HostLoop == <<"host", 0>>
NewLoop(n) == <<"new", n>>

\* the parts of the program a specification leaves at rest
SetupIdle ==
    /\ llm = "none"
    /\ runs = <<>>

SetupDone ==
    /\ fs = "complete"
    /\ llm = "engine"
    /\ runs = <<>>

CallIdle ==
    /\ argSeq = [kind |-> "none", val |-> <<>>]
    /\ argIds = [kind |-> "none", val |-> <<>>]
    /\ calls = <<>>

StreamIdle ==
    /\ status = [s \in Streams |-> "idle"]
    /\ streamLoop = [s \in Streams |-> NoLoop]
    /\ genLen = [s \in Streams |-> 0]
    /\ requested = [s \in Streams |-> 0]
    /\ afterEnd = [s \in Streams |-> 0]
    /\ submits = [s \in Streams |-> 0]
    /\ engineOut = [s \in Streams |-> <<>>]
    /\ fragments = [s \in Streams |-> <<>>]
    /\ raised = [s \in Streams |-> "none"]
    /\ engineReqs = {}
    /\ overlap = FALSE
    /\ firstLoop = currentLoop
    /\ loopsMade = 0
    /\ stepLoops = {}

InitSetup ==
    /\ fs \in {"absent", "complete"}
    /\ SetupIdle
    /\ CallIdle
    /\ currentLoop = NoLoop
    /\ StreamIdle

\* One run of Predictor.setup, with the outcome of the fetch subprocess (fo,
\* left) and of the engine constructor (eo) as inputs.
setup(fo, left, eo) ==
    LET existed == PathExists(fs)
        fetched == DownloadNeeded(fs)
        fsAfter == IF fetched THEN download_weights(fs, fo, left) ELSE fs
        reached == ~fetched \/ fo = "ok"
        engine  == IF ~reached THEN "notcalled"
                   ELSE IF eo = "ok" THEN "built" ELSE "raised"
        result  == IF fetched /\ fo = "killed" THEN "killed"
                   ELSE IF engine = "built" THEN "returned" ELSE "raised"
    IN  /\ Len(runs) < MaxSetups
        /\ fs' = fsAfter
        /\ llm' = IF engine = "built" THEN "engine"
                  ELSE IF result = "killed" THEN "none" ELSE llm
        /\ runs' = Append(runs, [existed  |-> existed,
                                 fetched  |-> fetched,
                                 fetch    |-> IF fetched THEN fo ELSE "none",
                                 fsBefore |-> fs,
                                 fsAfter  |-> fsAfter,
                                 engine   |-> engine,
                                 result   |-> result])
        /\ UNCHANGED <<callVars, streamVars>>

Setup ==
    \E fo \in FetchOutcomes, left \in FetchLeftovers, eo \in EngineOutcomes :
        setup(fo, left, eo)

NextSetup == Setup

SpecSetup == InitSetup /\ [][NextSetup]_vars

\* C1: the engine is constructed only over locally present weights (the path
\* existed at the check or the fetch returned successfully), a failed fetch
\* makes setup raise without constructing an engine, and this holds for every
\* run, also one that follows a fetch that left the path partially populated.
C1_EngineOnlyOnWeights ==
    \A i \in DOMAIN runs :
        /\ runs[i].engine # "notcalled" =>
              /\ runs[i].existed \/ runs[i].fetch = "ok"
              /\ runs[i].fsAfter = "complete"
        /\ runs[i].fetch = "error" =>
              runs[i].result = "raised" /\ runs[i].engine = "notcalled"

\* C2: the fetch is invoked exactly when the path is absent at the check; a
\* run that finds the path leaves the filesystem unchanged; once the path
\* exists no later run fetches.
C2_ProvisionIdempotent ==
    /\ \A i \in DOMAIN runs :
          /\ runs[i].fetched <=> ~runs[i].existed
          /\ runs[i].existed => runs[i].fsAfter = runs[i].fsBefore
    /\ \A i, j \in DOMAIN runs :
          (i < j /\ runs[i].fsAfter # "absent") =>
              (~runs[j].fetched /\ runs[j].fsAfter = runs[i].fsAfter)

C2_Witness ==
    /\ Len(runs) >= 3
    /\ runs[1].fetched /\ runs[1].fetch = "ok" /\ runs[1].result = "returned"
    /\ runs[2].existed /\ ~runs[2].fetched
    /\ runs[3].existed /\ ~runs[3].fetched

(***************************************************************************)
(* Generation adapter: sampling parameters                                 *)
(* A Python str is a sequence of characters; None, a str and a list object *)
(* are [kind, val] records; a list the callee binds without copying is the *)
(* caller's object, and appending to it changes what the caller holds.     *)
(***************************************************************************)

\* calls of the adapter made with the same argument objects
MaxCalls == 2
\* length of a caller-supplied stop_sequences list
MaxStopLen == 2
\* length of a caller-supplied stop_token_ids list
MaxIdLen == 2
\* top_k inputs range over -MaxTopK..MaxTopK and None
MaxTopK == 2

\* the top_k that asks the engine for no top-k filtering
NoTopK == -1

Chars == {"a", "b"}
StopStrings == {<<c>> : c \in Chars}
TokenIds == {"t1", "t2"}

\* self.tokenizer.eos_token_id
eos_token_id == "eos"

\* self.tokenizer.decode(tid): the text of one token
decode(tid) == <<"<", tid, ">">>

SeqsUpTo(S, n) == UNION {[1..k -> S] : k \in 0..n}

None == [kind |-> "none", val |-> <<>>]
Str(t) == [kind |-> "str", val |-> t]
List(l) == [kind |-> "list", val |-> l]

StopSeqArgs ==
    {None, Str(<<>>)} \cup {Str(t) : t \in StopStrings}
        \cup {List(l) : l \in SeqsUpTo(StopStrings, MaxStopLen)}

StopIdArgs == {None} \cup {List(l) : l \in SeqsUpTo(TokenIds, MaxIdLen)}

TopKArgs ==
    {[isNone |-> TRUE, val |-> 0]}
        \cup {[isNone |-> FALSE, val |-> k] : k \in (0 - MaxTopK)..MaxTopK}

\* Python truthiness of None or a list
Truthy(x) == x.kind = "list" /\ Len(x.val) > 0

\* `if top_k is None or top_k == 0: top_k = -1`
TopK(k) == IF k.isNone \/ k.val = 0 THEN NoTopK ELSE k.val

\* `stop_token_ids = stop_token_ids or []` binds the caller's list when it
\* is truthy and a new empty list otherwise
IdsAliased(ids) == Truthy(ids)

AppendEosMissing(l) == l

\* `stop_token_ids.append(self.tokenizer.eos_token_id)`
AppendEos(l) == Append(l, eos_token_id)

StopTokenIds(ids) == AppendEos(IF IdsAliased(ids) THEN ids.val ELSE <<>>)

\* `stop = stop_sequences` binds the caller's list (second branch only)
StopAliased(sq) == sq.kind = "list" /\ Len(sq.val) > 0

\* the three branches that choose the initial stop list
StopBase(sq) ==
    IF sq.kind = "str" /\ sq.val # <<>> THEN <<sq.val>>
    ELSE IF sq.kind = "list" /\ Len(sq.val) > 0 THEN sq.val
    ELSE <<>>

\* `for tid in stop_token_ids: stop.append(self.tokenizer.decode(tid))`
StopList(sq, ids) ==
    LET tids == StopTokenIds(ids)
    IN  StopBase(sq) \o [i \in 1..Len(tids) |-> decode(tids[i])]

\* SamplingParams(..., top_k=top_k, stop=stop, ...)
SamplingParams(k, sq, ids) == [top_k |-> TopK(k), stop |-> StopList(sq, ids)]

InitCall ==
    /\ argSeq \in StopSeqArgs
    /\ argIds \in StopIdArgs
    /\ calls = <<>>
    /\ SetupDone
    /\ currentLoop = NoLoop
    /\ StreamIdle

\* One call of VLLMPipeline.__call__ up to the construction of the sampling
\* parameters, made with the argument objects the caller holds.
AdapterCall(k) ==
    /\ Len(calls) < MaxCalls
    /\ argIds' = IF IdsAliased(argIds) THEN List(StopTokenIds(argIds)) ELSE argIds
    /\ argSeq' = IF StopAliased(argSeq) THEN List(StopList(argSeq, argIds)) ELSE argSeq
    /\ calls' = Append(calls, [topk   |-> k,
                               seqIn  |-> argSeq,
                               idsIn  |-> argIds,
                               params |-> SamplingParams(k, argSeq, argIds)])
    /\ UNCHANGED <<setupVars, streamVars>>

Call == \E k \in TopKArgs : AdapterCall(k)

NextCall == Call

SpecCall == InitCall /\ [][NextCall]_vars

\* C8: a positive top_k reaches the engine unchanged and every other top_k
\* (None, 0, a negative integer) reaches it as -1, no top-k filtering.
C8_TopKOnlyIfPositive ==
    \A i \in DOMAIN calls :
        LET k == calls[i].topk
        IN  IF ~k.isNone /\ k.val > 0
            THEN calls[i].params.top_k = k.val
            ELSE calls[i].params.top_k = NoTopK

\* C9: a call leaves the caller's stop_sequences and stop_token_ids objects
\* as they were, so calls made with the same objects send the same stop list.
C9_ArgumentsUnchanged ==
    /\ \A i \in DOMAIN calls :
          calls[i].seqIn = calls[1].seqIn /\ calls[i].idsIn = calls[1].idsIn
    /\ calls # <<>> => argSeq = calls[1].seqIn /\ argIds = calls[1].idsIn
    /\ \A i, j \in DOMAIN calls : calls[i].params.stop = calls[j].params.stop

\* the stop sequences a caller's argument stands for
UserStops(sq) ==
    CASE sq.kind = "none" -> <<>>
      [] sq.kind = "str" -> IF sq.val = <<>> THEN <<>> ELSE <<sq.val>>
      [] sq.kind = "list" -> sq.val

UserIds(ids) == IF ids.kind = "none" THEN <<>> ELSE ids.val

\* C10: the stop list sent to the engine is the user's stop sequences, then
\* the decoded text of each supplied stop token id in order, then the decoded
\* end-of-sequence token; it is never empty.
C10_StopListShape ==
    \A i \in DOMAIN calls :
        LET c == calls[i]
            ids == UserIds(c.idsIn)
        IN  /\ c.params.stop =
                   UserStops(c.seqIn)
                       \o [n \in 1..Len(ids) |-> decode(ids[n])]
                       \o <<decode(eos_token_id)>>
            /\ Len(c.params.stop) >= 1
            /\ c.params.stop[Len(c.params.stop)] = decode(eos_token_id)

C10_Witness ==
    /\ Len(calls) >= 1
    /\ calls[1].seqIn.kind = "list" /\ Len(calls[1].seqIn.val) = 2
    /\ calls[1].idsIn.kind = "list" /\ Len(calls[1].idsIn.val) = 2
    /\ Len(calls[1].params.stop) = 5

(***************************************************************************)
(* Generation adapter: the stream                                          *)
(* Predictor.predict and VLLMPipeline.__call__ are generator functions:    *)
(* calling them runs none of their body, and each next() of the consumer   *)
(* runs the body up to the next yield.  predict yields what __call__       *)
(* yields, one for one, so the two are modelled as one generator.          *)
(***************************************************************************)

\* fragments one generator may yield
MaxOutputs == 2
\* length of a cumulative text
MaxTextLen == 2
\* next() calls on a generator that has finished
MaxAfter == 1

\* the request id every request is submitted under
RequestId == 0

Texts == SeqsUpTo(Chars, MaxTextLen)

\* What one gen.__anext__() can deliver: a RequestOutput with n completions,
\* the first with cumulative text t; an exception of the engine; or the end
\* of the engine's stream.
Output(n, t) == [kind |-> "output", n |-> n, text |-> t]
EngineError == [kind |-> "error", n |-> 0, text |-> <<>>]
EndOfStream == [kind |-> "end", n |-> 0, text |-> <<>>]

StreamOutcomes ==
    {Output(1, t) : t \in Texts}
        \cup {Output(0, <<>>), Output(2, <<>>), EngineError, EndOfStream}

ServeOutcomes == {Output(1, <<"a">>), Output(2, <<>>), EngineError, EndOfStream}

\* The engine is handed a request id it already holds: it either keeps both
\* requests or raises from generate.
DuplicateOutcomes == {"accept", "reject"}

\* asyncio.get_event_loop() with no current loop: the policy creates and
\* installs one (main thread), or RuntimeError is raised.
LoopSources == {"policy", "RuntimeError"}

SetEventLoopMissing(cur, l) == cur

\* asyncio.set_event_loop(loop): the thread's current loop afterwards
set_event_loop(cur, l) == l

\* the try/except around asyncio.get_event_loop(): the local `loop`, the
\* thread's current loop afterwards, and the number of loops created
EventLoop(cur, made, via) ==
    IF cur # NoLoop
    THEN [loop |-> cur, current |-> cur, made |-> made]
    ELSE IF via = "policy"
    THEN [loop |-> NewLoop(made + 1), current |-> NewLoop(made + 1),
          made |-> made + 1]
    ELSE [loop |-> NewLoop(made + 1),
          current |-> set_event_loop(cur, NewLoop(made + 1)),
          made |-> made + 1]

\* what loop.run_until_complete(gen.__anext__()) and the two lines after it
\* raise for an outcome of the engine stream
Raises(o) ==
    CASE o.kind = "end" -> "StopAsyncIteration"
      [] o.kind = "error" -> "EngineError"
      [] o.kind = "output" /\ o.n # 1 -> "AssertionError"
      [] OTHER -> "none"

CaughtAny(exc) == TRUE

\* `except StopAsyncIteration: break`
Caught(exc) == exc = "StopAsyncIteration"

\* generated_text[generation_length:]
Fragment(text, gl) == SubSeq(text, gl + 1, Len(text))

YieldNonEmpty(frs, text, gl) ==
    IF Fragment(text, gl) = <<>> THEN frs ELSE Append(frs, Fragment(text, gl))

\* `yield generated_text[generation_length:]` (incremental_generation is
\* True in every call predict makes)
Yield(frs, text, gl) == Append(frs, Fragment(text, gl))

\* the engine's record of the request of generator s
Request(s) == [id |-> RequestId, owner |-> s]

\* predict(...): a generator object is created; nothing of the body runs
Predict(s) ==
    /\ status[s] = "idle"
    /\ \A t \in Streams : t < s => status[t] # "idle"
    /\ status' = [status EXCEPT ![s] = "created"]
    /\ UNCHANGED <<setupVars, callVars, streamLoop, genLen, requested,
                   afterEnd, submits, engineOut, fragments, raised,
                   engineReqs, overlap, currentLoop, firstLoop, loopsMade,
                   stepLoops>>

\* next() on a live generator.  The first next() runs the body from its
\* start: the loop is obtained, gen is created, and the first __anext__
\* calls engine.generate with request id 0.  Every next() runs one
\* run_until_complete(gen.__anext__()) on the generator's loop.  Inputs: the
\* engine's outcome o, its answer dup to a duplicate id, the source via of
\* a missing loop, and the other requests fin the engine finishes while the
\* loop runs.
NextFragment(s, o, dup, via, fin) ==
    /\ status[s] \in {"created", "running"}
    /\ fin \subseteq {x \in Streams \ {s} : Request(x) \in engineReqs}
    /\ (o.kind = "output" /\ o.n = 1) => Len(fragments[s]) < MaxOutputs
    /\ LET first == status[s] = "created"
           got == IF first THEN EventLoop(currentLoop, loopsMade, via)
                  ELSE [loop |-> streamLoop[s], current |-> currentLoop,
                        made |-> loopsMade]
           clash == first /\ \E r \in engineReqs : r.id = RequestId
           rejected == clash /\ dup = "reject"
           out == IF rejected THEN EngineError ELSE o
           exc == Raises(out)
           added == IF first /\ ~rejected THEN {Request(s)} ELSE {}
           ended == IF exc \in {"StopAsyncIteration", "EngineError"}
                    THEN {Request(s)} ELSE {}
       IN  /\ streamLoop' = [streamLoop EXCEPT ![s] = got.loop]
           /\ currentLoop' = got.current
           /\ loopsMade' = got.made
           /\ stepLoops' = stepLoops \cup {got.loop}
           /\ requested' = [requested EXCEPT ![s] = @ + 1]
           /\ submits' = [submits EXCEPT ![s] = IF first THEN @ + 1 ELSE @]
           /\ overlap' = (overlap \/ clash)
           /\ engineReqs' =
                  ((engineReqs \cup added) \ ended) \ {Request(x) : x \in fin}
           /\ engineOut' = [engineOut EXCEPT ![s] = Append(@, out)]
           /\ IF exc = "none"
              THEN /\ fragments' = [fragments EXCEPT
                                       ![s] = Yield(@, out.text, genLen[s])]
                   /\ genLen' = [genLen EXCEPT ![s] = Len(out.text)]
                   /\ status' = [status EXCEPT ![s] = "running"]
                   /\ UNCHANGED raised
              ELSE IF Caught(exc)
              THEN /\ status' = [status EXCEPT ![s] = "done"]
                   /\ UNCHANGED <<fragments, genLen, raised>>
              ELSE /\ status' = [status EXCEPT ![s] = "failed"]
                   /\ raised' = [raised EXCEPT ![s] = exc]
                   /\ UNCHANGED <<fragments, genLen>>
    /\ UNCHANGED <<setupVars, callVars, afterEnd, firstLoop>>

\* next() on a generator that has returned or raised: StopIteration, and no
\* line of the body runs
NextOnFinished(s) ==
    /\ status[s] \in {"done", "failed"}
    /\ afterEnd[s] < MaxAfter
    /\ afterEnd' = [afterEnd EXCEPT ![s] = @ + 1]
    /\ UNCHANGED <<setupVars, callVars, status, streamLoop, genLen, requested,
                   submits, engineOut, fragments, raised, engineReqs, overlap,
                   currentLoop, firstLoop, loopsMade, stepLoops>>

\* The consumer drops a generator suspended at its yield: the generator is
\* closed there, and no line of the body tells the engine.
Abandon(s) ==
    /\ status[s] = "running"
    /\ status' = [status EXCEPT ![s] = "abandoned"]
    /\ UNCHANGED <<setupVars, callVars, streamLoop, genLen, requested,
                   afterEnd, submits, engineOut, fragments, raised,
                   engineReqs, overlap, currentLoop, firstLoop, loopsMade,
                   stepLoops>>

InitStream ==
    /\ SetupDone
    /\ CallIdle
    /\ currentLoop \in {NoLoop, HostLoop}
    /\ StreamIdle

\* one request, every engine stream over Texts
StreamPredict == Predict(1)

StreamNext ==
    \E o \in StreamOutcomes, via \in LoopSources :
        NextFragment(1, o, "accept", via, {})

StreamNextOnFinished == NextOnFinished(1)

NextStream == StreamPredict \/ StreamNext \/ StreamNextOnFinished

SpecStream == InitStream /\ [][NextStream]_vars

\* several requests, consumed in any order; the inputs that a step does not
\* read are not enumerated
ServePredict == \E s \in Streams : Predict(s)

ServeNext ==
    \E s \in Streams, o \in ServeOutcomes :
        \E dup \in IF status[s] = "created" /\ engineReqs # {}
                   THEN DuplicateOutcomes ELSE {"accept"},
           via \in IF status[s] = "created" /\ currentLoop = NoLoop
                   THEN LoopSources ELSE {"policy"},
           fin \in SUBSET {x \in Streams \ {s} : Request(x) \in engineReqs} :
            NextFragment(s, o, dup, via, fin)

ServeAbandon == \E s \in Streams : Abandon(s)

NextServe == ServePredict \/ ServeNext \/ ServeAbandon

SpecServe == InitStream /\ [][NextServe]_vars

RECURSIVE Concat(_)
Concat(frs) == IF frs = <<>> THEN <<>> ELSE Head(frs) \o Concat(Tail(frs))

\* an engine output with exactly one completion
IsCompletion(o) == o.kind = "output" /\ o.n = 1

Completions(s) == SelectSeq(engineOut[s], IsCompletion)

\* C3: after the k-th fragment is yielded, the fragments yielded so far
\* concatenate to the k-th cumulative text of the engine, whatever the
\* sequence of cumulative texts is.
C3_ConcatIsCumulativeText ==
    \A s \in Streams :
        \A k \in 1..Len(fragments[s]) :
            Concat(SubSeq(fragments[s], 1, k)) = Completions(s)[k].text

\* C4: nothing is submitted or pulled before the first fragment is asked
\* for; every next() of the consumer pulls exactly one engine output; one
\* fragment is yielded per output, in the engine's order; the stream ends
\* exactly when the engine's stream ends.
C4_Lockstep ==
    \A s \in Streams :
        LET n == Len(engineOut[s])
            good == Completions(s)
        IN  /\ status[s] \in {"idle", "created"} =>
                  (submits[s] = 0 /\ n = 0 /\ Request(s) \notin engineReqs)
            /\ n = requested[s]
            /\ submits[s] = IF requested[s] > 0 THEN 1 ELSE 0
            /\ Len(fragments[s]) = Len(good)
            /\ \A k \in 1..Len(fragments[s]) :
                  /\ engineOut[s][k] = good[k]
                  /\ fragments[s][k] =
                         Fragment(good[k].text,
                                  IF k = 1 THEN 0 ELSE Len(good[k - 1].text))
            /\ status[s] = "done" <=> (n > 0 /\ engineOut[s][n].kind = "end")
            /\ status[s] = "running" =>
                  \A k \in 1..n : engineOut[s][k].kind = "output"

C4_Witness ==
    /\ status[1] = "done"
    /\ requested[1] = 3
    /\ Len(fragments[1]) = 2
    /\ fragments[1][2] # <<>>

\* C5: at most one request is live in the engine, no two live requests share
\* a request id, and no request is submitted while another is live.
C5_SingleRequestAtATime ==
    /\ Cardinality(engineReqs) <= 1
    /\ \A r1, r2 \in engineReqs : r1 # r2 => r1.id # r2.id
    /\ ~overlap

\* C6: an engine error other than end-of-stream, or an output without
\* exactly one completion, reaches the consumer at that step; no fragment is
\* yielded and no output is pulled afterwards; the fragments yielded are
\* those of the outputs before it; only end-of-stream ends the stream
\* normally.
C6_FailurePropagates ==
    \A s \in Streams :
        LET n == Len(engineOut[s])
            failing == /\ n > 0
                       /\ \/ engineOut[s][n].kind = "error"
                          \/ (engineOut[s][n].kind = "output"
                                /\ engineOut[s][n].n # 1)
        IN  /\ failing <=> status[s] = "failed"
            /\ failing =>
                  /\ raised[s] = IF engineOut[s][n].kind = "error"
                                 THEN "EngineError" ELSE "AssertionError"
                  /\ requested[s] = n
                  /\ Len(fragments[s]) = n - 1
                  /\ \A k \in 1..(n - 1) : IsCompletion(engineOut[s][k])
            /\ raised[s] # "none" <=> status[s] = "failed"
            /\ status[s] = "done" <=> (n > 0 /\ engineOut[s][n].kind = "end")

C6_Witness ==
    /\ status[1] = "failed"
    /\ raised[1] = "AssertionError"
    /\ Len(fragments[1]) = 2
    /\ afterEnd[1] = 1

\* C7: every step of every request runs on one event loop, the thread's
\* current loop; a loop is created only when there was none, and it is then
\* installed so that later requests get it.
C7_OneEventLoop ==
    LET started == {s \in Streams : requested[s] > 0}
    IN  /\ Cardinality(stepLoops) <= 1
        /\ \A s \in started :
              /\ currentLoop # NoLoop
              /\ streamLoop[s] = currentLoop
              /\ stepLoops = {currentLoop}
        /\ loopsMade = IF firstLoop = NoLoop /\ started # {} THEN 1 ELSE 0
        /\ firstLoop # NoLoop => currentLoop = firstLoop

C7_Witness ==
    /\ firstLoop = NoLoop
    /\ loopsMade = 1
    /\ \A s \in {1, 2} : requested[s] >= 2 /\ streamLoop[s] = NewLoop(1)
====
